---- MODULE Spec2Model ----
(***************************************************************************)
(* PagueBem lambda: the QR/barcode decode pipeline.                        *)
(*                                                                         *)
(*   QrCodeController.decode -> DecodeRequest -> QrCodeService.decode_image *)
(*     -> _decode_base64_to_image (_clean_b64, b64decode, Image.open)       *)
(*     -> optional downscale -> rotation x transform loop -> _try_decode    *)
(*     -> response dict -> build_response                                   *)
(*                                                                         *)
(* Library calls (PIL, pyzbar, cv2, base64) are the environment: what they *)
(* return or raise for a given candidate is drawn from the sets below.     *)
(* Python strings that the code only passes along are TLA+ strings; the    *)
(* strings _clean_b64 takes apart are sequences of one-character strings.  *)
(***************************************************************************)
EXTENDS Integers, Sequences, FiniteSets, TLC

VARIABLES
    HAS_PYZBAR,     \* module global: pyzbar imported
    HAS_CV2,        \* module global: cv2 and numpy imported
    HAS_MULTI,      \* hasattr(cv2.QRCodeDetector(), "detectAndDecodeMulti")
    request,        \* the event every call of this run receives
    oracle,         \* what the libraries answer per candidate ("free": any answer)
    st,             \* per call: position and the call's own data
    frame,          \* decode_image's locals found / results / used_transform
    cleanIn,        \* _clean_b64 taken alone: its argument
    cleanOut,       \* _clean_b64 taken alone: its result
    users,          \* the DynamoDB users table: its items
    reg             \* per AuthService.registrar call: position and locals

vars ==
    <<HAS_PYZBAR, HAS_CV2, HAS_MULTI, request, oracle, st, frame, cleanIn, cleanOut,
      users, reg>>

-----------------------------------------------------------------------------
(* Bounds of the model *)

\* most symbols one backend pass reports
MaxSymbols == 3
\* longest tail of characters after the optional prefix of a _clean_b64 argument
MaxLen == 3
\* in the two-call specification, the deepest candidate with a prescribed answer
PairDepth == 3
\* concurrent AuthService.registrar calls
NumRegs == 2

-----------------------------------------------------------------------------
(* Transform catalog and rotation angles *)

ANGLES == <<0, 90, 180, 270>>

TRANSFORMS ==
    <<"orig", "gray", "gray_resize_x2", "contrast_x2", "sharp_x2",
      "contrast_gray_thresh", "binary", "invert">>

\* tname = f"{name}_rot{angle}"
TName(ai, ti) == TRANSFORMS[ti] \o "_rot" \o ToString(ANGLES[ai])

\* position of (ai, ti) in the order the nested for loops reach the candidates
CandidateIndex(ai, ti) == (ai - 1) * Len(TRANSFORMS) + ti

\* img.rotate(angle, expand=True) if angle != 0 else img
Rotate(img, angle) ==
    IF angle \in {90, 270} THEN [img EXCEPT !.w = img.h, !.h = img.w] ELSE img

\* fn(rotated) for the catalog entry called name
ApplyTransform(name, im) ==
    CASE name = "orig" -> im
      [] name = "sharp_x2" -> im
      [] name = "gray_resize_x2" -> [w |-> im.w * 2, h |-> im.h * 2, mode |-> "L"]
      [] OTHER -> [im EXCEPT !.mode = "L"]

-----------------------------------------------------------------------------
(* Image loading and the pre-search downscale *)

None == "None"
NoExc == "none"

MAX_DIM == 1000

ImageSizes == {<<1, 1>>, <<2000, 1>>, <<2000, 1500>>}

\* the image_base64 strings a request can carry, by what the loader makes of them:
\*   empty     ""                                   (falsy for the DTO validator)
\*   blank     whitespace only: cleans to "", decodes to b""
\*   bad_b64   base64.b64decode raises binascii.Error
\*   not_image decodes to bytes PIL cannot identify
\*   image     decodes to a raster image of the given size
Payloads ==
    {[kind |-> k, w |-> 0, h |-> 0] : k \in {"empty", "blank", "bad_b64", "not_image"}}
    \cup {[kind |-> "image", w |-> s[1], h |-> s[2]] : s \in ImageSizes}

\* exception classes that "except ValueError" catches
ValueErrors == {"ValueError", "ValidationError", "binascii.Error"}

\* a validator that lets "" through
ValidateImage_AcceptAll(p) == NoExc

\* DecodeRequest.validate_image: "" is rejected (pydantic wraps the ValueError
\* in a ValidationError, itself a ValueError)
ValidateImage(p) == IF p.kind = "empty" THEN "ValidationError" ELSE NoExc

\* _decode_base64_to_image: the exception raised, or NoExc
LoadError(p) ==
    CASE p.kind = "bad_b64" -> "binascii.Error"
      [] p.kind \in {"empty", "blank", "not_image"} -> "UnidentifiedImageError"
      [] OTHER -> NoExc

\* _decode_base64_to_image: the image returned when nothing is raised
LoadImage(p) == [w |-> p.w, h |-> p.h, mode |-> "RGB"]

Max(a, b) == IF a >= b THEN a ELSE b

\* int(d * (1000 / max_dim)); exact for the sizes of ImageSizes
NewDim(d, max_dim) == (d * MAX_DIM) \div max_dim

\* lines 67-72: whether the image is downsampled
NeedsDownscale(img) == Max(img.w, img.h) > MAX_DIM /\ ~HAS_PYZBAR

\* img.resize((new_w, new_h), Image.LANCZOS): PIL raises ValueError
\* ("height and width must be > 0") for an empty target
ResizeError(img) ==
    IF NewDim(img.w, Max(img.w, img.h)) < 1 \/ NewDim(img.h, Max(img.w, img.h)) < 1
    THEN "ValueError" ELSE NoExc

Downscale(img) ==
    [img EXCEPT !.w = NewDim(img.w, Max(img.w, img.h)),
                !.h = NewDim(img.h, Max(img.w, img.h))]

-----------------------------------------------------------------------------
(* Decode backends *)

Payload(n) == "P" \o ToString(n)

\* what zbar_decode returns: n symbols, payloads numbered from base; the bytes of
\* the second one are not valid UTF-8
ZbarSymbols(n, base) ==
    [i \in 1..n |-> [type |-> IF i % 2 = 1 THEN "QRCODE" ELSE "CODE128",
                     data |-> [text |-> Payload(base + i), utf8 |-> i # 2]]]

\* what detectAndDecodeMulti reports in decoded_info: n payloads, numbered from
\* base, after `blanks` empty strings (codes detected but not decoded)
CvInfos(blanks, n, base) ==
    [i \in 1..(blanks + n) |-> IF i <= blanks THEN "" ELSE Payload(base + i)]

\* answers of zbar_decode: it raises, or returns a list
PyAnswers ==
    {[kind |-> "raise", syms |-> <<>>]}
    \cup {[kind |-> "list", syms |-> ZbarSymbols(n, 0)] : n \in 0..MaxSymbols}

\* answers of the cv2 path with detectAndDecodeMulti: np.array/convert raises
\* (outer try), the detector raises (inner try), decoded_info is None, or a tuple
\* of strings
CvMultiAnswers ==
    {[kind |-> k, infos |-> <<>>] : k \in {"raise_outer", "raise_inner", "none"}}
    \cup {[kind |-> "infos", infos |-> CvInfos(0, n, 10)] : n \in 0..MaxSymbols}
    \cup {[kind |-> "infos", infos |-> CvInfos(1, n, 10)] : n \in 0..1}

\* answers of the cv2 path with detectAndDecode alone: one string, maybe empty
CvSingleAnswers ==
    {[kind |-> k, infos |-> <<>>] : k \in {"raise_outer", "raise_inner"}}
    \cup {[kind |-> "infos", infos |-> CvInfos(1 - n, n, 10)] : n \in 0..1}

\* a backend that is not imported is never asked
PyUnused == [kind |-> "unused", syms |-> <<>>]
CvUnused == [kind |-> "unused", infos |-> <<>>]

\* the rotation or the transform raises: no backend sees the candidate
TransformFails == [tfail |-> TRUE, py |-> PyUnused, cv |-> CvUnused]

\* everything the libraries can do with one candidate in this process
Answers ==
    {TransformFails}
    \cup [tfail : {FALSE},
          py : IF HAS_PYZBAR THEN PyAnswers ELSE {PyUnused},
          cv : IF ~HAS_CV2 THEN {CvUnused}
               ELSE IF HAS_MULTI THEN CvMultiAnswers ELSE CvSingleAnswers]

\* the answer with nothing in it: transform fine, no backend sees a symbol
EmptyAnswer ==
    [tfail |-> FALSE,
     py |-> IF HAS_PYZBAR THEN [kind |-> "list", syms |-> <<>>] ELSE PyUnused,
     cv |-> IF HAS_CV2 THEN [kind |-> "infos", infos |-> CvInfos(1, 0, 10)] ELSE CvUnused]

\* d.data.decode("utf-8"), and on failure d.data.decode("latin-1", errors="replace")
DecodeBytes(b) == IF b.utf8 THEN b.text ELSE "latin1:" \o b.text

\* _try_decode_pyzbar
TryDecodePyzbar(py) ==
    IF ~HAS_PYZBAR THEN <<>>
    ELSE IF py.kind = "raise" THEN <<>>
    ELSE [i \in 1..Len(py.syms) |->
            [type |-> py.syms[i].type, data |-> DecodeBytes(py.syms[i].data)]]

RECURSIVE CvOut(_)
\* for info in decoded_info: if info: out.append({"type": "QRCODE", "data": info})
CvOut(infos) ==
    IF infos = <<>> THEN <<>>
    ELSE (IF Head(infos) # "" THEN <<[type |-> "QRCODE", data |-> Head(infos)]>>
          ELSE <<>>) \o CvOut(Tail(infos))

\* _try_decode_cv2: both detector branches keep the non-empty strings
TryDecodeCv2(cv) ==
    IF ~HAS_CV2 THEN <<>>
    ELSE IF cv.kind \in {"raise_outer", "raise_inner", "none"} THEN <<>>
    ELSE CvOut(cv.infos)

\* a _try_decode in which a raising pyzbar ends the candidate's attempt
TryDecode_RaiseEndsCandidate(ans) ==
    LET pyres == TryDecodePyzbar(ans.py)
        cvres == TryDecodeCv2(ans.cv)
    IN  IF HAS_PYZBAR /\ ans.py.kind = "raise"
        THEN [res |-> <<>>, invoked |-> <<"pyzbar">>]
        ELSE IF HAS_PYZBAR /\ pyres # <<>>
        THEN [res |-> pyres, invoked |-> <<"pyzbar">>]
        ELSE IF HAS_CV2
        THEN [res |-> cvres,
              invoked |-> (IF HAS_PYZBAR THEN <<"pyzbar">> ELSE <<>>) \o <<"cv2">>]
        ELSE [res |-> <<>>,
              invoked |-> IF HAS_PYZBAR THEN <<"pyzbar">> ELSE <<>>]

\* a _try_decode that asks cv2 before pyzbar
TryDecode_CvFirst(ans) ==
    LET pyres == TryDecodePyzbar(ans.py)
        cvres == TryDecodeCv2(ans.cv)
    IN  IF HAS_CV2 /\ cvres # <<>>
        THEN [res |-> cvres, invoked |-> <<"cv2">>]
        ELSE IF HAS_PYZBAR
        THEN [res |-> pyres,
              invoked |-> (IF HAS_CV2 THEN <<"cv2">> ELSE <<>>) \o <<"pyzbar">>]
        ELSE [res |-> <<>>, invoked |-> IF HAS_CV2 THEN <<"cv2">> ELSE <<>>]

\* _try_decode: the result and the helpers it called, in order
TryDecode(ans) ==
    LET pyres == TryDecodePyzbar(ans.py)
        cvres == TryDecodeCv2(ans.cv)
    IN  IF HAS_PYZBAR /\ pyres # <<>>
        THEN [res |-> pyres, invoked |-> <<"pyzbar">>]
        ELSE IF HAS_CV2
        THEN [res |-> cvres,
              invoked |-> (IF HAS_PYZBAR THEN <<"pyzbar">> ELSE <<>>) \o <<"cv2">>]
        ELSE [res |-> <<>>,
              invoked |-> IF HAS_PYZBAR THEN <<"pyzbar">> ELSE <<>>]

-----------------------------------------------------------------------------
(* decode_image: loop control and the response dict *)

\* loops without the two break statements
Advance_NoBreak(hit, ai, ti, found) ==
    IF ti = Len(TRANSFORMS)
    THEN IF ai = Len(ANGLES)
         THEN [pc |-> "build", ai |-> ai, ti |-> ti]
         ELSE [pc |-> "loop", ai |-> ai + 1, ti |-> 1]
    ELSE [pc |-> "loop", ai |-> ai, ti |-> ti + 1]

\* where the nested loops go after one candidate: `hit` is "decoded is non-empty"
\* (found was just set, break), `found` the local read by "if found: break"
Advance(hit, ai, ti, found) ==
    IF hit \/ ti = Len(TRANSFORMS)
    THEN IF found \/ ai = Len(ANGLES)
         THEN [pc |-> "build", ai |-> ai, ti |-> ti]
         ELSE [pc |-> "loop", ai |-> ai + 1, ti |-> 1]
    ELSE [pc |-> "loop", ai |-> ai, ti |-> ti + 1]

\* an except branch that gives the search up where it should go on
OnTransformError_Abort(ai, ti, found) == [pc |-> "build", ai |-> ai, ti |-> ti]

\* lines 88-90: the except branch logs and continues with the next candidate;
\* after the last transform of an angle the outer loop's "if found" is read
OnTransformError(ai, ti, found) ==
    IF ti = Len(TRANSFORMS)
    THEN IF found \/ ai = Len(ANGLES)
         THEN [pc |-> "build", ai |-> ai, ti |-> ti]
         ELSE [pc |-> "loop", ai |-> ai + 1, ti |-> 1]
    ELSE [pc |-> "loop", ai |-> ai, ti |-> ti + 1]

\* a data field that is the first payload whenever there is one
DeriveData_FirstOnly(results) ==
    IF Len(results) >= 1
    THEN [str |-> results[1].data]
    ELSE [list |-> <<>>]

\* the top-level data field: a str for one result, else a list
DeriveData(results) ==
    IF Len(results) = 1
    THEN [str |-> results[1].data]
    ELSE [list |-> [i \in 1..Len(results) |-> results[i].data]]

NotFoundResponse ==
    [found |-> FALSE, message |-> "No QR/barcode detected with tried preprocessing steps"]

\* lines 102-120
MakeResponse(f) ==
    IF ~f.found THEN NotFoundResponse
    ELSE [found |-> TRUE, transform |-> f.used_transform, results |-> f.results,
          data |-> DeriveData(f.results)]

\* QrCodeController.decode: the status for how the call ended
StatusFor(exc) ==
    IF exc = NoExc THEN 200 ELSE IF exc \in ValueErrors THEN 400 ELSE 500

\* found / results / used_transform kept in one place for all calls
LocalsOf_Shared(c) == 1

\* the frame holding a call's locals: each call has its own
LocalsOf(c) == c

-----------------------------------------------------------------------------
(* State of one call *)

NoImage == [w |-> 0, h |-> 0, mode |-> "none"]
NoResponse == [unset |-> TRUE]
NoLog ==
    [tname |-> None, transformed |-> FALSE, img_t |-> NoImage, ans |-> TransformFails,
     invoked |-> <<>>, decoded |-> <<>>]

InitCall ==
    [pc |-> "parse", loaded |-> FALSE, img |-> NoImage, ai |-> 1, ti |-> 1,
     visited |-> <<>>, hits |-> 0, skipped |-> FALSE, last |-> NoLog, exc |-> NoExc,
     response |-> NoResponse, status |-> 0]

InitFrame == [found |-> FALSE, results |-> <<>>, used_transform |-> None]

Calls == DOMAIN st

\* the answers the libraries may give for candidate k
AnswersAt(k) == IF oracle[k].free THEN Answers ELSE {oracle[k].ans}

FreeOracle ==
    [k \in 1..(Len(ANGLES) * Len(TRANSFORMS)) |-> [free |-> TRUE, ans |-> TransformFails]]

-----------------------------------------------------------------------------
(* Actions *)

\* controller lines 22-36: the body is parsed and the DTO validated
ParseRequest(c) ==
    /\ st[c].pc = "parse"
    /\ st' = [st EXCEPT ![c] =
                IF ValidateImage(request) # NoExc
                THEN [@ EXCEPT !.pc = "respond", !.exc = ValidateImage(request)]
                ELSE [@ EXCEPT !.pc = "load"]]
    /\ UNCHANGED <<users, reg, HAS_PYZBAR, HAS_CV2, HAS_MULTI, request, oracle, frame, cleanIn, cleanOut>>

\* line 61: img = _decode_base64_to_image(b64_string)
Load(c) ==
    /\ st[c].pc = "load"
    /\ st' = [st EXCEPT ![c] =
                IF LoadError(request) # NoExc
                THEN [@ EXCEPT !.pc = "respond", !.exc = LoadError(request)]
                ELSE [@ EXCEPT !.pc = "prepare", !.loaded = TRUE,
                               !.img = LoadImage(request)]]
    /\ UNCHANGED <<users, reg, HAS_PYZBAR, HAS_CV2, HAS_MULTI, request, oracle, frame, cleanIn, cleanOut>>

\* lines 62-79: the downscale of a large image, then the locals are set
Prepare(c) ==
    /\ st[c].pc = "prepare"
    /\ IF NeedsDownscale(st[c].img) /\ ResizeError(st[c].img) # NoExc
       THEN /\ st' = [st EXCEPT ![c] = [@ EXCEPT !.pc = "respond",
                                                 !.exc = ResizeError(st[c].img)]]
            /\ UNCHANGED frame
       ELSE /\ st' = [st EXCEPT ![c] =
                        [@ EXCEPT !.pc = "loop", !.ai = 1, !.ti = 1,
                                  !.img = IF NeedsDownscale(st[c].img)
                                          THEN Downscale(st[c].img) ELSE @]]
            /\ frame' = [frame EXCEPT ![LocalsOf(c)] = InitFrame]
    /\ UNCHANGED <<users, reg, HAS_PYZBAR, HAS_CV2, HAS_MULTI, request, oracle, cleanIn, cleanOut>>

\* lines 83-100: one candidate: rotate, transform, _try_decode, then the breaks
LoopIteration(c) ==
    /\ st[c].pc = "loop"
    /\ \E ans \in AnswersAt(CandidateIndex(st[c].ai, st[c].ti)) :
        LET s == st[c]
            tname == TName(s.ai, s.ti)
            img_t == ApplyTransform(TRANSFORMS[s.ti], Rotate(s.img, ANGLES[s.ai]))
            dec == IF ans.tfail THEN [res |-> <<>>, invoked |-> <<>>]
                   ELSE TryDecode(ans)
            hit == dec.res # <<>>
            f == frame[LocalsOf(c)]
            f2 == IF hit
                  THEN [found |-> TRUE, results |-> dec.res, used_transform |-> tname]
                  ELSE f
            nxt == IF ans.tfail THEN OnTransformError(s.ai, s.ti, f.found)
                   ELSE Advance(hit, s.ai, s.ti, f2.found)
        IN  /\ frame' = [frame EXCEPT ![LocalsOf(c)] = f2]
            /\ st' = [st EXCEPT ![c] =
                        [@ EXCEPT !.pc = nxt.pc, !.ai = nxt.ai, !.ti = nxt.ti,
                                  !.visited = Append(@, tname),
                                  !.hits = @ + (IF hit THEN 1 ELSE 0),
                                  !.skipped = @ \/ ans.tfail,
                                  !.last = [tname |-> tname,
                                            transformed |-> ~ans.tfail,
                                            img_t |-> IF ans.tfail THEN NoImage ELSE img_t,
                                            ans |-> ans,
                                            invoked |-> dec.invoked,
                                            decoded |-> dec.res]]]
    /\ UNCHANGED <<users, reg, HAS_PYZBAR, HAS_CV2, HAS_MULTI, request, oracle, cleanIn, cleanOut>>

\* lines 102-120: the dict decode_image returns
BuildResponse(c) ==
    /\ st[c].pc = "build"
    /\ st' = [st EXCEPT ![c] = [@ EXCEPT !.pc = "respond",
                                         !.response = MakeResponse(frame[LocalsOf(c)])]]
    /\ UNCHANGED <<users, reg, HAS_PYZBAR, HAS_CV2, HAS_MULTI, request, oracle, frame, cleanIn, cleanOut>>

\* controller lines 42-49: build_response(200 | 400 | 500, ...)
Respond(c) ==
    /\ st[c].pc = "respond"
    /\ st' = [st EXCEPT ![c] = [@ EXCEPT !.pc = "done", !.status = StatusFor(st[c].exc)]]
    /\ UNCHANGED <<users, reg, HAS_PYZBAR, HAS_CV2, HAS_MULTI, request, oracle, frame, cleanIn, cleanOut>>

-----------------------------------------------------------------------------
(* One call at a time *)

NoClean == [done |-> FALSE, value |-> <<>>]

Init ==
    /\ HAS_PYZBAR \in BOOLEAN
    /\ HAS_CV2 \in BOOLEAN
    /\ HAS_MULTI \in IF HAS_CV2 THEN BOOLEAN ELSE {FALSE}
    /\ request \in Payloads
    /\ oracle = FreeOracle
    /\ st = [c \in {1} |-> InitCall]
    /\ frame = [c \in {1} |-> InitFrame]
    /\ cleanIn = <<>>
    /\ cleanOut = NoClean
    /\ users = {}
    /\ reg = <<>>

Next ==
    \/ \E c \in Calls : ParseRequest(c)
    \/ \E c \in Calls : Load(c)
    \/ \E c \in Calls : Prepare(c)
    \/ \E c \in Calls : LoopIteration(c)
    \/ \E c \in Calls : BuildResponse(c)
    \/ \E c \in Calls : Respond(c)

Spec == Init /\ [][Next]_vars

-----------------------------------------------------------------------------
(* Claims about one call *)

NumCandidates == Len(ANGLES) * Len(TRANSFORMS)

\* angle outer, catalog transform inner
CandidateOrder ==
    [k \in 1..NumCandidates |->
        TRANSFORMS[((k - 1) % Len(TRANSFORMS)) + 1] \o "_rot"
            \o ToString(ANGLES[((k - 1) \div Len(TRANSFORMS)) + 1])]

IsPrefix(s, t) == Len(s) <= Len(t) /\ \A i \in 1..Len(s) : s[i] = t[i]

Range(f) == {f[i] : i \in DOMAIN f}

Returned(s) == s.pc \in {"respond", "done"} /\ s.exc = NoExc

\* C1: candidates are tried in the order angle-outer / transform-inner; the search
\* stops at the first candidate whose decode attempt is non-empty, the outcome
\* names exactly that candidate and carries exactly its symbols, and no later
\* candidate is tried.
C1_FirstSuccessWins ==
    \A c \in Calls :
        LET s == st[c] IN
        /\ IsPrefix(s.visited, CandidateOrder)
        /\ s.hits <= 1
        /\ s.hits = 1 =>
            /\ s.pc # "loop"
            /\ s.last.decoded # <<>>
            /\ s.last.tname = s.visited[Len(s.visited)]
        /\ (s.hits = 0 /\ s.visited # <<>>) => s.last.decoded = <<>>
        /\ Returned(s) =>
            IF s.hits = 1
            THEN /\ s.response.found
                 /\ s.response.transform = CandidateOrder[Len(s.visited)]
                 /\ s.response.results = s.last.decoded
            ELSE s.response = NotFoundResponse

\* a call returned a match found neither at the first nor at the last candidate
C1_Witness ==
    \E c \in Calls :
        /\ st[c].pc = "done"
        /\ st[c].status = 200
        /\ st[c].response # NoResponse
        /\ st[c].response.found
        /\ Len(st[c].visited) > Len(TRANSFORMS)
        /\ Len(st[c].visited) < NumCandidates
        /\ Len(st[c].response.results) >= 2

\* C2: an image that loads and yields no symbol on any candidate goes through
\* all 32 candidates, returns found:false with the fixed message, status 200.
C2_ExhaustionIsNotFound ==
    \A c \in Calls :
        (st[c].pc = "done" /\ st[c].loaded /\ st[c].hits = 0) =>
            /\ st[c].exc = NoExc
            /\ st[c].visited = CandidateOrder
            /\ st[c].response = NotFoundResponse
            /\ st[c].status = 200

\* C3: per candidate, pyzbar is asked first when available; a non-empty pyzbar
\* list is the result and cv2 is not asked; cv2 is asked only when pyzbar is
\* unavailable or came back empty, its non-empty list is the result; else empty.
C3_PreciseThenGeneral ==
    \A c \in Calls :
        LET l == st[c].last
            py == TryDecodePyzbar(l.ans.py)
            cv == TryDecodeCv2(l.ans.cv)
        IN  l.transformed =>
            /\ HAS_PYZBAR => (l.invoked # <<>> /\ l.invoked[1] = "pyzbar")
            /\ ~HAS_PYZBAR => "pyzbar" \notin Range(l.invoked)
            /\ ("cv2" \in Range(l.invoked)) <=> (HAS_CV2 /\ (~HAS_PYZBAR \/ py = <<>>))
            /\ l.decoded = IF HAS_PYZBAR /\ py # <<>> THEN py
                           ELSE IF HAS_CV2 /\ cv # <<>> THEN cv
                           ELSE <<>>

\* pyzbar came back empty (or raised) and cv2 supplied the result
C3_Witness ==
    \E c \in Calls :
        /\ st[c].last.transformed
        /\ st[c].last.invoked = <<"pyzbar", "cv2">>
        /\ st[c].last.decoded # <<>>
        /\ st[c].last.ans.py.kind = "raise"

\* C4: input that is not valid base64, or not an image, is answered 400 and
\* never reaches the search loop.
C4_MalformedIs400 ==
    \A c \in Calls :
        (st[c].pc = "done" /\ request.kind \in {"bad_b64", "not_image"}) =>
            /\ st[c].status = 400
            /\ st[c].visited = <<>>

\* C5: once the image is loaded decode_image never raises: the call returns a
\* found:true or found:false outcome and the status is 200.
C5_NoRaiseAfterLoad ==
    \A c \in Calls :
        (st[c].loaded /\ st[c].pc \in {"respond", "done"}) =>
            /\ st[c].exc = NoExc
            /\ st[c].response # NoResponse
            /\ st[c].pc = "done" => st[c].status = 200

\* C6: data is derived from results alone: the payload string for one symbol,
\* the list of payloads in the order of results for several.
C6_DataFromResults ==
    \A c \in Calls :
        LET r == st[c].response IN
        (r # NoResponse /\ r.found) =>
            /\ Len(r.results) >= 1
            /\ Len(r.results) = 1 => r.data = [str |-> r.results[1].data]
            /\ Len(r.results) > 1 =>
                /\ DOMAIN r.data = {"list"}
                /\ Len(r.data.list) = Len(r.results)
                /\ \A i \in 1..Len(r.results) : r.data.list[i] = r.results[i].data

\* a match with three symbols was returned
C6_Witness ==
    \E c \in Calls :
        /\ st[c].response # NoResponse
        /\ st[c].response.found
        /\ Len(st[c].response.results) >= 3
        /\ st[c].pc = "done"

\* C7 as stated: a 1x1 image and an empty payload both fail before the search:
\* nothing is loaded and no candidate is ever built.
C7_TinyAndEmptyRejected ==
    \A c \in Calls :
        (\/ request.kind \in {"empty", "blank"}
         \/ (request.kind = "image" /\ request.w = 1 /\ request.h = 1)) =>
            /\ ~st[c].loaded
            /\ st[c].visited = <<>>
            /\ st[c].pc \notin {"prepare", "loop", "build"}

\* C7 amended: an empty image string is rejected by the DTO validator and an
\* empty byte payload by the image loader, both before any candidate is built;
\* a 1x1 image loads and the search runs over the candidates.
C7_EmptyRejectedTinySearched ==
    \A c \in Calls :
        /\ request.kind \in {"empty", "blank"} =>
            /\ ~st[c].loaded
            /\ st[c].visited = <<>>
            /\ st[c].pc \notin {"prepare", "loop", "build"}
            /\ st[c].pc \in {"respond", "done"} =>
                st[c].exc = IF request.kind = "empty" THEN "ValidationError"
                            ELSE "UnidentifiedImageError"
        /\ (request.kind = "image" /\ request.w = 1 /\ request.h = 1) =>
            /\ st[c].pc \notin {"parse", "load"} => st[c].loaded
            /\ st[c].pc \in {"respond", "done"} =>
                /\ st[c].exc = NoExc
                /\ st[c].visited # <<>>
                /\ st[c].response # NoResponse

\* a 1x1 image went through every candidate and was answered 200
C7_Witness ==
    \E c \in Calls :
        /\ request.kind = "image" /\ request.w = 1 /\ request.h = 1
        /\ st[c].pc = "done"
        /\ st[c].status = 200
        /\ Len(st[c].visited) = NumCandidates
        /\ st[c].img = [w |-> 1, h |-> 1, mode |-> "RGB"]

\* C8: with neither backend available no backend is asked, every candidate's
\* result is empty, and every loadable image ends found:false after all candidates.
C8_NoBackendNotFound ==
    (~HAS_PYZBAR /\ ~HAS_CV2) =>
        \A c \in Calls :
            /\ st[c].last.transformed =>
                (st[c].last.invoked = <<>> /\ st[c].last.decoded = <<>>)
            /\ (st[c].loaded /\ st[c].pc = "done") =>
                /\ st[c].exc = NoExc
                /\ st[c].visited = CandidateOrder
                /\ st[c].response = NotFoundResponse

\* the library handed back at least one symbol
PyGave(ans) == ans.py.kind = "list" /\ ans.py.syms # <<>>
CvGave(ans) == ans.cv.kind = "infos" /\ \E i \in DOMAIN ans.cv.infos : ans.cv.infos[i] # ""

PyRaised(ans) == ans.py.kind = "raise"
CvRaised(ans) == ans.cv.kind \in {"raise_outer", "raise_inner"}

\* C12: a backend that raises on a candidate counts as an empty result of that
\* backend: after a raising pyzbar cv2 is still asked on the same candidate, a
\* candidate on which every available backend raised or came back empty has no
\* symbols, and the search goes on with the next candidate.
C12_BackendFailureIsEmpty ==
    \A c \in Calls :
        LET s == st[c]
            a == s.last.ans
        IN  s.last.transformed =>
            /\ (PyRaised(a) /\ HAS_CV2) => s.last.invoked = <<"pyzbar", "cv2">>
            /\ (PyRaised(a) /\ CvGave(a)) =>
                /\ Len(s.last.decoded) >= 1
                /\ \A i \in DOMAIN s.last.decoded : s.last.decoded[i].type = "QRCODE"
            /\ (CvRaised(a) /\ PyGave(a)) => Len(s.last.decoded) = Len(a.py.syms)
            /\ (~PyGave(a) /\ ~CvGave(a)) =>
                /\ s.last.decoded = <<>>
                /\ s.hits = 0
                /\ Len(s.visited) < NumCandidates =>
                    /\ s.pc = "loop"
                    /\ TName(s.ai, s.ti) = CandidateOrder[Len(s.visited) + 1]
                /\ (Len(s.visited) = NumCandidates /\ Returned(s)) =>
                    s.response = NotFoundResponse

\* both backends raised on a candidate and the search is at the next one
C12_Witness ==
    \E c \in Calls :
        /\ st[c].last.transformed
        /\ PyRaised(st[c].last.ans)
        /\ CvRaised(st[c].last.ans)
        /\ st[c].last.invoked = <<"pyzbar", "cv2">>
        /\ st[c].pc = "loop"
        /\ Len(st[c].visited) >= 2

\* C11: a candidate whose rotation or transform raises is skipped without any
\* decode attempt, the search goes on with the next candidate in the fixed order
\* (it ends only if that was the last candidate), and the candidate reported as
\* matched is still the first one whose decode attempt was non-empty.
C11_TransformFailureSkips ==
    /\ [](\A c \in Calls :
            LET s == st[c] IN
            /\ (s.visited # <<>> /\ ~s.last.transformed) =>
                /\ s.last.invoked = <<>>
                /\ s.last.decoded = <<>>
                /\ s.pc = IF Len(s.visited) < NumCandidates THEN "loop" ELSE s.pc
                /\ s.pc = "loop" =>
                    TName(s.ai, s.ti) = CandidateOrder[Len(s.visited) + 1]
            /\ (Returned(s) /\ s.response.found) =>
                /\ s.last.transformed
                /\ s.last.decoded # <<>>
                /\ s.response.transform = s.last.tname
                /\ s.response.transform = CandidateOrder[Len(s.visited)]
                /\ s.hits = 1)
    /\ [][\A c \in Calls :
            (st[c].pc = "loop" /\ st'[c] # st[c] /\ ~st'[c].last.transformed) =>
                /\ st'[c].hits = st[c].hits
                /\ frame'[c] = frame[c]
                /\ Len(st'[c].visited) = Len(st[c].visited) + 1]_vars

\* a candidate was skipped and a later candidate was reported as the match
C11_Witness ==
    \E c \in Calls :
        /\ st[c].skipped
        /\ st[c].pc = "done"
        /\ st[c].response # NoResponse
        /\ st[c].response.found
        /\ st[c].last.transformed

-----------------------------------------------------------------------------
(* Two calls on the same input, interleaved *)

\* after the prescribed candidate every available backend reports symbols
TailAnswer ==
    [tfail |-> FALSE,
     py |-> IF HAS_PYZBAR THEN [kind |-> "list", syms |-> ZbarSymbols(MaxSymbols, 20)]
            ELSE PyUnused,
     cv |-> IF HAS_CV2 THEN [kind |-> "infos", infos |-> CvInfos(0, 1, 30)]
            ELSE CvUnused]

\* answers fixed per candidate: nothing before position pos, any answer at pos,
\* symbols after it
PairOracles ==
    {[k \in 1..(Len(ANGLES) * Len(TRANSFORMS)) |->
        [free |-> FALSE,
         ans |-> IF k < pos THEN EmptyAnswer ELSE IF k = pos THEN a ELSE TailAnswer]] :
      pos \in 1..PairDepth, a \in Answers}

PairRequests ==
    {[kind |-> "not_image", w |-> 0, h |-> 0], [kind |-> "image", w |-> 2000, h |-> 1500]}

InitPair ==
    /\ HAS_PYZBAR \in BOOLEAN
    /\ HAS_CV2 \in BOOLEAN
    /\ HAS_MULTI \in IF HAS_CV2 THEN BOOLEAN ELSE {FALSE}
    /\ request \in PairRequests
    /\ oracle \in PairOracles
    /\ st = [c \in {1, 2} |-> InitCall]
    /\ frame = [c \in {1, 2} |-> InitFrame]
    /\ cleanIn = <<>>
    /\ cleanOut = NoClean
    /\ users = {}
    /\ reg = <<>>

SpecPair == InitPair /\ [][Next]_vars

Outcome(c) == [status |-> st[c].status, exc |-> st[c].exc, response |-> st[c].response]

\* C9: two calls on the same input with the same library answers return the
\* same outcome however they interleave, and a step of one call changes neither
\* the other call's data nor the module globals.
C9_Deterministic ==
    /\ []((\A c \in Calls : st[c].pc = "done") =>
            \A c, d \in Calls : Outcome(c) = Outcome(d))
    /\ [][/\ <<HAS_PYZBAR, HAS_CV2, HAS_MULTI>>' = <<HAS_PYZBAR, HAS_CV2, HAS_MULTI>>
          /\ \A c \in Calls :
                st'[c] # st[c] =>
                    \A d \in Calls \ {c} : st'[d] = st[d] /\ frame'[d] = frame[d]]_vars

\* both calls returned a match while the other one was under way
C9_Witness ==
    /\ Cardinality(Calls) = 2
    /\ \A c \in Calls :
        /\ st[c].pc = "done"
        /\ st[c].response # NoResponse
        /\ st[c].response.found
        /\ Len(st[c].visited) >= 2

-----------------------------------------------------------------------------
(* _clean_b64 on its own *)

Whitespace == {" ", "\t", "\n", "\r"}

DataPrefix == <<"d", "a", "t", "a", ":">>

\* b64.startswith(p)
StartsWith(s, p) == Len(s) >= Len(p) /\ SubSeq(s, 1, Len(p)) = p

SetMin(S) == CHOOSE x \in S : \A y \in S : x <= y
SetMax(S) == CHOOSE x \in S : \A y \in S : x >= y

\* b64.split(sep, 1)
SplitOnce(s, sep) ==
    LET at == {i \in 1..Len(s) : s[i] = sep} IN
    IF at = {} THEN <<s>>
    ELSE <<SubSeq(s, 1, SetMin(at) - 1), SubSeq(s, SetMin(at) + 1, Len(s))>>

\* b64.rsplit(sep, 1)
SplitOnceFromRight(s, sep) ==
    LET at == {i \in 1..Len(s) : s[i] = sep} IN
    IF at = {} THEN <<s>>
    ELSE <<SubSeq(s, 1, SetMax(at) - 1), SubSeq(s, SetMax(at) + 1, Len(s))>>

RECURSIVE SplitWords(_, _, _)
\* b64.split(): the words between runs of whitespace
SplitWords(s, word, words) ==
    IF s = <<>> THEN (IF word = <<>> THEN words ELSE Append(words, word))
    ELSE IF Head(s) \in Whitespace
    THEN SplitWords(Tail(s), <<>>, IF word = <<>> THEN words ELSE Append(words, word))
    ELSE SplitWords(Tail(s), Append(word, Head(s)), words)

RECURSIVE Join(_)
\* "".join(words)
Join(words) == IF words = <<>> THEN <<>> ELSE Head(words) \o Join(Tail(words))

\* _clean_b64 splitting at the last comma
_clean_b64_rsplit(b64) ==
    LET parts == SplitOnceFromRight(b64, ",")
        rest == IF StartsWith(b64, DataPrefix) /\ Len(parts) = 2 THEN parts[2] ELSE b64
    IN  Join(SplitWords(rest, <<>>, <<>>))

\* _clean_b64
_clean_b64(b64) ==
    LET parts == SplitOnce(b64, ",")
        rest == IF StartsWith(b64, DataPrefix) /\ Len(parts) = 2 THEN parts[2] ELSE b64
    IN  Join(SplitWords(rest, <<>>, <<>>))

CleanAlphabet == {",", " ", "\n", "A"}

RECURSIVE SeqsUpTo(_)
SeqsUpTo(n) ==
    IF n = 0 THEN {<<>>}
    ELSE SeqsUpTo(n - 1)
         \cup {Append(s, ch) : s \in {t \in SeqsUpTo(n - 1) : Len(t) = n - 1},
                               ch \in CleanAlphabet}

CleanPrefixes == {<<>>, DataPrefix, <<" ">> \o DataPrefix, <<"d", "a", "t", "a">>}

CleanInputs == {p \o t : p \in CleanPrefixes, t \in SeqsUpTo(MaxLen)}

InitClean ==
    /\ HAS_PYZBAR = FALSE
    /\ HAS_CV2 = FALSE
    /\ HAS_MULTI = FALSE
    /\ request = [kind |-> "empty", w |-> 0, h |-> 0]
    /\ oracle = FreeOracle
    /\ st = <<>>
    /\ frame = <<>>
    /\ cleanIn \in CleanInputs
    /\ cleanOut = NoClean
    /\ users = {}
    /\ reg = <<>>

Clean ==
    /\ ~cleanOut.done
    /\ cleanOut' = [done |-> TRUE, value |-> _clean_b64(cleanIn)]
    /\ UNCHANGED <<users, reg, HAS_PYZBAR, HAS_CV2, HAS_MULTI, request, oracle, st, frame, cleanIn>>

NextClean == Clean

SpecClean == InitClean /\ [][NextClean]_vars

Strip(s) == SelectSeq(s, LAMBDA ch : ch \notin Whitespace)

HasComma(s) == \E i \in 1..Len(s) : s[i] = ","

AfterFirstComma(s) ==
    LET k == CHOOSE i \in 1..Len(s) : s[i] = "," /\ \A j \in 1..(i - 1) : s[j] # ","
    IN  SubSeq(s, k + 1, Len(s))

\* C10 as stated: an argument starting with "data:" gives what follows its first
\* comma without whitespace, any other argument gives itself without whitespace,
\* and the result holds no whitespace.
C10_PrefixAlwaysDropped ==
    cleanOut.done =>
        /\ \A i \in 1..Len(cleanOut.value) : cleanOut.value[i] \notin Whitespace
        /\ IF StartsWith(cleanIn, DataPrefix)
           THEN HasComma(cleanIn) /\ cleanOut.value = Strip(AfterFirstComma(cleanIn))
           ELSE cleanOut.value = Strip(cleanIn)

\* C10 amended: an argument starting with "data:" that holds a comma gives what
\* follows its first comma without whitespace; any other argument, one starting
\* with "data:" but holding no comma included, gives itself without whitespace;
\* the result holds no whitespace.
C10_CleanB64 ==
    cleanOut.done =>
        /\ \A i \in 1..Len(cleanOut.value) : cleanOut.value[i] \notin Whitespace
        /\ IF StartsWith(cleanIn, DataPrefix) /\ HasComma(cleanIn)
           THEN cleanOut.value = Strip(AfterFirstComma(cleanIn))
           ELSE cleanOut.value = Strip(cleanIn)

\* "data:" with whitespace and no comma was cleaned and kept its prefix
C10_Witness ==
    /\ cleanOut.done
    /\ StartsWith(cleanIn, DataPrefix)
    /\ ~HasComma(cleanIn)
    /\ \E i \in 1..Len(cleanIn) : cleanIn[i] \in Whitespace
    /\ StartsWith(cleanOut.value, DataPrefix)

-----------------------------------------------------------------------------
(* AuthService.registrar over UserRepository, several calls at once *)

Regs == DOMAIN reg

MIN_SENHA == 4

RegNames == {"", "ana", "bia"}
RegPasswords == {"", "abc", "1234"}

\* hashlib.sha256(senha.encode()).hexdigest()
hash_password(senha) == "sha256(" \o senha \o ")"

\* str(uuid.uuid4()): a value no other call draws
NewUsuarioId(p) == "uuid-" \o ToString(p)

\* the item put_item writes (criado_em, a timestamp, left out)
UserItem(usuario_id, nome_usuario, senha_hash) ==
    [usuario_id |-> usuario_id, nome_usuario |-> nome_usuario, senha_hash |-> senha_hash]

\* table.query on nome_usuario-index: the matching items
ItemsByNome(nome_usuario) == {u \in users : u.nome_usuario = nome_usuario}

\* ConditionExpression="attribute_not_exists(usuario_id)": no item has this key
PutCondition(usuario_id) == \A u \in users : u.usuario_id # usuario_id

InitReg(nome_usuario, senha) ==
    [pc |-> "validate", nome_usuario |-> nome_usuario, senha |-> senha,
     usuario_id |-> None, sucesso |-> FALSE, mensagem |-> None]

\* lines 36-40: the two input checks
Validate(p) ==
    /\ reg[p].pc = "validate"
    /\ reg' = [reg EXCEPT ![p] =
                IF reg[p].nome_usuario = "" \/ reg[p].senha = ""
                THEN [@ EXCEPT !.pc = "done",
                               !.mensagem = "nome_usuario e senha são obrigatórios"]
                ELSE IF Len(reg[p].senha) < MIN_SENHA
                THEN [@ EXCEPT !.pc = "done",
                               !.mensagem = "Senha deve ter pelo menos 4 caracteres"]
                ELSE [@ EXCEPT !.pc = "query"]]
    /\ UNCHANGED <<HAS_PYZBAR, HAS_CV2, HAS_MULTI, request, oracle, st, frame,
                   cleanIn, cleanOut, users>>

\* lines 43-45 with UserRepository.get_by_nome_usuario: a ClientError reads as
\* "no such user"
GetByNomeUsuario(p) ==
    /\ reg[p].pc = "query"
    /\ \E clientError \in BOOLEAN :
        LET usuario_existente ==
                ~clientError /\ ItemsByNome(reg[p].nome_usuario) # {}
        IN  reg' = [reg EXCEPT ![p] =
                IF usuario_existente
                THEN [@ EXCEPT !.pc = "done",
                               !.mensagem = "Nome de usuário já está em uso"]
                ELSE [@ EXCEPT !.pc = "create"]]
    /\ UNCHANGED <<HAS_PYZBAR, HAS_CV2, HAS_MULTI, request, oracle, st, frame,
                   cleanIn, cleanOut, users>>

\* lines 48-55 with UserRepository.create: put_item under the key condition
Create(p) ==
    /\ reg[p].pc = "create"
    /\ \E clientError \in BOOLEAN :
        LET usuario_id == NewUsuarioId(p)
            sucesso == ~clientError /\ PutCondition(usuario_id)
        IN  /\ users' = IF sucesso
                        THEN users \cup {UserItem(usuario_id, reg[p].nome_usuario,
                                                  hash_password(reg[p].senha))}
                        ELSE users
            /\ reg' = [reg EXCEPT ![p] =
                        [@ EXCEPT !.pc = "done", !.usuario_id = usuario_id,
                                  !.sucesso = sucesso,
                                  !.mensagem = IF sucesso THEN "Conta criada com sucesso!"
                                               ELSE "Erro ao criar conta"]]
    /\ UNCHANGED <<HAS_PYZBAR, HAS_CV2, HAS_MULTI, request, oracle, st, frame,
                   cleanIn, cleanOut>>

\* the table is empty or already holds ana
InitUsers == {{}, {UserItem("uuid-0", "ana", hash_password("1234"))}}

InitAuth ==
    /\ HAS_PYZBAR = FALSE
    /\ HAS_CV2 = FALSE
    /\ HAS_MULTI = FALSE
    /\ request = [kind |-> "empty", w |-> 0, h |-> 0]
    /\ oracle = FreeOracle
    /\ st = <<>>
    /\ frame = <<>>
    /\ cleanIn = <<>>
    /\ cleanOut = NoClean
    /\ users \in InitUsers
    /\ reg \in [1..NumRegs -> {InitReg(n, s) : n \in RegNames, s \in RegPasswords}]

NextAuth ==
    \/ \E p \in Regs : Validate(p)
    \/ \E p \in Regs : GetByNomeUsuario(p)
    \/ \E p \in Regs : Create(p)

SpecAuth == InitAuth /\ [][NextAuth]_vars

\* C13: whatever the interleaving of registrations, no two items of the users
\* table carry the same nome_usuario, and of the registrations for one
\* nome_usuario at most one returns success.
C13_UniqueNames ==
    /\ \A u, v \in users : u.nome_usuario = v.nome_usuario => u = v
    /\ \A p, q \in Regs :
        (p # q /\ reg[p].sucesso /\ reg[q].sucesso) =>
            reg[p].nome_usuario # reg[q].nome_usuario

====
